---------------------------- MODULE Spec2Model ----------------------------
(***************************************************************************)
(* A model of the relay backend (src/unnamed/part_000, of which            *)
(* src/server.js is the variant without /extract-text): the startup guard, *)
(* the middleware chain (express.json, the rate limiter), and the route    *)
(* handlers /test-api, /ask, /generate-sas-url, /get-images and            *)
(* /extract-text, one action per synchronous stretch between two awaits.   *)
(*                                                                         *)
(* JavaScript strings are sequences of one-character strings, so that      *)
(* indexOf, substring, trim, the image-extension regular expression and    *)
(* JSON.parse are computed on characters as the runtime computes them.     *)
(***************************************************************************)
EXTENDS Integers, Sequences, FiniteSets

(***************************************************************************)
(* JavaScript values.  Every value is a record [t, s, v]: t is the type    *)
(* tag, s the characters of a string (the digits of a number), v the       *)
(* elements of an array or the members of an object.                       *)
(***************************************************************************)
Undefined == [t |-> "undefined", s |-> <<>>, v |-> <<>>]
Null == [t |-> "null", s |-> <<>>, v |-> <<>>]
True == [t |-> "bool", s |-> <<"t">>, v |-> <<>>]
False == [t |-> "bool", s |-> <<>>, v |-> <<>>]
Str(chars) == [t |-> "str", s |-> chars, v |-> <<>>]
Num(digits) == [t |-> "num", s |-> digits, v |-> <<>>]
Arr(elems) == [t |-> "arr", s |-> <<>>, v |-> elems]
\* An object is the sequence of its own properties, in insertion order.
Obj(members) == [t |-> "obj", s |-> <<>>, v |-> members]
Member(key, val) == [k |-> key, val |-> val]

\* typeof x === "string"
IsString(x) == x.t = "str"

\* Array.isArray(x)
IsArray(x) == x.t = "arr"

\* The truthiness of a value: what !x negates.
Truthy(x) ==
    CASE x.t = "undefined" -> FALSE
      [] x.t = "null" -> FALSE
      [] x.t = "bool" -> x.s # <<>>
      [] x.t = "str" -> x.s # <<>>
      [] x.t = "num" -> x.s # <<"0">>
      [] OTHER -> TRUE

\* x.key for a value that is neither null nor undefined: the property of an
\* object, and undefined on anything else (a string, an array, a number).
\* Arrays and strings have no own property of the names the handlers read.
Get(x, key) ==
    IF x.t = "obj" /\ \E i \in 1..Len(x.v) : x.v[i].k = key
    THEN x.v[CHOOSE i \in 1..Len(x.v) : x.v[i].k = key].val
    ELSE Undefined

\* Whether x.key throws a TypeError (property access on null or undefined).
Nullish(x) == x.t \in {"undefined", "null"}

(***************************************************************************)
(* JavaScript string operations.  Positions are 0-based, as in the source. *)
(***************************************************************************)
\* The characters String.prototype.trim removes; "BOM" stands for U+FEFF and
\* "NBSP" for U+00A0, each one character.
TrimSpace == {" ", "\n", "\t", "\r", "BOM", "NBSP"}

RECURSIVE TrimStart(_)
TrimStart(s) ==
    IF s # <<>> /\ Head(s) \in TrimSpace THEN TrimStart(Tail(s)) ELSE s

RECURSIVE TrimEnd(_)
TrimEnd(s) ==
    IF s # <<>> /\ s[Len(s)] \in TrimSpace
    THEN TrimEnd(SubSeq(s, 1, Len(s) - 1))
    ELSE s

\* s.trim()
Trim(s) == TrimEnd(TrimStart(s))

\* s.indexOf(c): the 0-based position of the first c, or -1.
IndexOf(s, c) ==
    IF \E i \in 1..Len(s) : s[i] = c
    THEN (CHOOSE i \in 1..Len(s) : s[i] = c /\ \A j \in 1..(i - 1) : s[j] # c) - 1
    ELSE -1

\* s.lastIndexOf(c): the 0-based position of the last c, or -1.
LastIndexOf(s, c) ==
    IF \E i \in 1..Len(s) : s[i] = c
    THEN (CHOOSE i \in 1..Len(s) :
              s[i] = c /\ \A j \in (i + 1)..Len(s) : s[j] # c) - 1
    ELSE -1

Clamp(n, len) == IF n < 0 THEN 0 ELSE IF n > len THEN len ELSE n

\* s.substring(start, end): both ends clamped to [0, length], swapped when
\* start > end.
Substring(s, start, end) ==
    LET a == Clamp(start, Len(s))
        b == Clamp(end, Len(s))
        lo == IF a <= b THEN a ELSE b
        hi == IF a <= b THEN b ELSE a
    IN SubSeq(s, lo + 1, hi)

\* s.substring(start)
SubstringFrom(s, start) == Substring(s, start, Len(s))

\* s.slice(start) for start >= 0.
SliceFrom(s, start) == SubSeq(s, Clamp(start, Len(s)) + 1, Len(s))

RECURSIVE Join(_, _)
\* parts.join(sep) for a sequence of strings.
Join(parts, sep) ==
    IF parts = <<>> THEN <<>>
    ELSE IF Len(parts) = 1 THEN parts[1]
    ELSE parts[1] \o sep \o Join(Tail(parts), sep)

ObjectObject ==
    <<"[", "o", "b", "j", "e", "c", "t", " ", "O", "b", "j", "e", "c", "t", "]">>

RECURSIVE toString(_)
\* x.toString() (and the string conversion Array.prototype.join applies to
\* each element, where null and undefined give the empty string).
toString(x) ==
    CASE x.t = "str" -> x.s
      [] x.t = "num" -> x.s
      [] x.t = "bool" -> IF x.s # <<>> THEN <<"t", "r", "u", "e">>
                         ELSE <<"f", "a", "l", "s", "e">>
      [] x.t = "obj" -> ObjectObject
      [] x.t = "arr" ->
            Join([i \in 1..Len(x.v) |->
                     IF Nullish(x.v[i]) THEN <<>> ELSE toString(x.v[i])], <<",">>)
      [] OTHER -> <<>>

(***************************************************************************)
(* JSON.parse: a recursive-descent parser of the JSON grammar over         *)
(* objects, arrays, strings and the literals null, true, false (no text of *)
(* the model holds a digit, so none holds a number).  Positions are        *)
(* 1-based sequence indexes.                                               *)
(***************************************************************************)
JsonSpace == {" ", "\n", "\t", "\r"}

ParseFail == [ok |-> FALSE, val |-> Undefined, next |-> 0]
ParseOk(val, next) == [ok |-> TRUE, val |-> val, next |-> next]

At(s, i) == IF i >= 1 /\ i <= Len(s) THEN s[i] ELSE "EOF"

RECURSIVE SkipSpace(_, _)
SkipSpace(s, i) == IF At(s, i) \in JsonSpace THEN SkipSpace(s, i + 1) ELSE i

\* obj with key set to val: a repeated key keeps its place and takes the last
\* value.
PutMember(members, key, val) ==
    IF \E i \in 1..Len(members) : members[i].k = key
    THEN [i \in 1..Len(members) |->
             IF members[i].k = key THEN Member(key, val) ELSE members[i]]
    ELSE Append(members, Member(key, val))

\* A string literal starting at the quote s[i]; the alphabet has no escapes.
ParseString(s, i) ==
    LET rest == SubSeq(s, i + 1, Len(s))
        close == IndexOf(rest, "\"")
        body == SubSeq(rest, 1, close)
    IN IF close = -1 \/ \E j \in 1..Len(body) : body[j] \in {"\n", "\t", "\r"}
       THEN ParseFail
       ELSE ParseOk(Str(body), i + close + 2)

ParseLiteral(s, i, word, val) ==
    IF SubSeq(s, i, i + Len(word) - 1) = word
    THEN ParseOk(val, i + Len(word))
    ELSE ParseFail

\* F applied to the value of x, with x evaluated once.
Bind(x, F(_)) == CHOOSE r \in {F(e) : e \in {x}} : TRUE

RECURSIVE ParseValue(_, _)
RECURSIVE ParseElements(_, _, _)
RECURSIVE ParseMembers(_, _, _)

\* After an element e of an array: "," and the next element, or "]".
AfterElement(s, e, j, acc) ==
    IF At(s, j) = "," THEN ParseElements(s, j + 1, Append(acc, e.val))
    ELSE IF At(s, j) = "]" THEN ParseOk(Arr(Append(acc, e.val)), j + 1)
    ELSE ParseFail

\* The elements of an array after "[" or ",": a value, then "," or "]".
ParseElements(s, i, acc) ==
    Bind(ParseValue(s, i), LAMBDA e :
        IF ~e.ok THEN ParseFail
        ELSE Bind(SkipSpace(s, e.next), LAMBDA j : AfterElement(s, e, j, acc)))

\* After a member key : e of an object: "," and the next member, or "}".
AfterMember(s, key, e, j, acc) ==
    IF At(s, j) = "," THEN ParseMembers(s, j + 1, PutMember(acc, key.val.s, e.val))
    ELSE IF At(s, j) = "}" THEN ParseOk(Obj(PutMember(acc, key.val.s, e.val)), j + 1)
    ELSE ParseFail

\* The value of a member after its key, which must be followed by ":".
MemberValue(s, key, c, acc) ==
    IF ~key.ok \/ At(s, c) # ":" THEN ParseFail
    ELSE Bind(ParseValue(s, c + 1), LAMBDA e :
             IF ~e.ok THEN ParseFail
             ELSE Bind(SkipSpace(s, e.next), LAMBDA j : AfterMember(s, key, e, j, acc)))

\* The members of an object after "{" or ",": "key" : value, then "," or "}".
ParseMembers(s, i, acc) ==
    Bind(SkipSpace(s, i), LAMBDA k :
        Bind(IF At(s, k) = "\"" THEN ParseString(s, k) ELSE ParseFail, LAMBDA key :
            Bind(SkipSpace(s, key.next), LAMBDA c : MemberValue(s, key, c, acc))))

\* The value at s[j], the first character after the spaces.
ValueAt(s, j) ==
    CASE At(s, j) = "{" ->
              Bind(SkipSpace(s, j + 1), LAMBDA k :
                  IF At(s, k) = "}" THEN ParseOk(Obj(<<>>), k + 1)
                  ELSE ParseMembers(s, j + 1, <<>>))
      [] At(s, j) = "[" ->
              Bind(SkipSpace(s, j + 1), LAMBDA k :
                  IF At(s, k) = "]" THEN ParseOk(Arr(<<>>), k + 1)
                  ELSE ParseElements(s, j + 1, <<>>))
      [] At(s, j) = "\"" -> ParseString(s, j)
      [] At(s, j) = "n" -> ParseLiteral(s, j, <<"n", "u", "l", "l">>, Null)
      [] At(s, j) = "t" -> ParseLiteral(s, j, <<"t", "r", "u", "e">>, True)
      [] At(s, j) = "f" -> ParseLiteral(s, j, <<"f", "a", "l", "s", "e">>, False)
      [] OTHER -> ParseFail

ParseValue(s, i) == Bind(SkipSpace(s, i), LAMBDA j : ValueAt(s, j))

\* The result of JSON.parse from the value r read at the start of s: the
\* whole text must be that one value between JSON spaces.
WholeText(s, r) ==
    IF r.ok /\ SkipSpace(s, r.next) = Len(s) + 1
    THEN [ok |-> TRUE, val |-> r.val]
    ELSE [ok |-> FALSE, val |-> Undefined]

\* JSON.parse(text): [ok |-> TRUE, val] or, when it throws a SyntaxError,
\* [ok |-> FALSE].
JSONParse(text) ==
    Bind(text, LAMBDA s : Bind(ParseValue(s, 1), LAMBDA r : WholeText(s, r)))

RECURSIVE Stringify(_)
\* The JSON text a provider writes for a value (JSON.stringify's compact
\* form): what JSON.parse reads back.
Stringify(x) ==
    CASE x.t = "str" -> <<"\"">> \o x.s \o <<"\"">>
      [] x.t = "null" -> <<"n", "u", "l", "l">>
      [] x.t = "bool" -> toString(x)
      [] x.t = "arr" ->
            <<"[">> \o Join([i \in 1..Len(x.v) |-> Stringify(x.v[i])], <<",">>)
                   \o <<"]">>
      [] x.t = "obj" ->
            <<"{">> \o Join([i \in 1..Len(x.v) |->
                               <<"\"">> \o x.v[i].k \o <<"\"", ":">>
                                       \o Stringify(x.v[i].val)], <<",">>)
                   \o <<"}">>
      [] OTHER -> <<>>

(***************************************************************************)
(* The image-extension test of /get-images:                                *)
(*     blob.name.match(/\.(jpg|jpeg|png|gif|jfif)$/i)                      *)
(***************************************************************************)
UpperCase ==
    <<"A", "B", "C", "D", "E", "F", "G", "H", "I", "J", "K", "L", "M",
      "N", "O", "P", "Q", "R", "S", "T", "U", "V", "W", "X", "Y", "Z">>
LowerCase ==
    <<"a", "b", "c", "d", "e", "f", "g", "h", "i", "j", "k", "l", "m",
      "n", "o", "p", "q", "r", "s", "t", "u", "v", "w", "x", "y", "z">>

\* The case folding of the i flag on one character.
FoldCase(c) ==
    IF \E i \in 1..Len(UpperCase) : UpperCase[i] = c
    THEN LowerCase[CHOOSE i \in 1..Len(UpperCase) : UpperCase[i] = c]
    ELSE c

\* The alternatives of the group (jpg|jpeg|png|gif|jfif).
imageExtensions ==
    { <<"j", "p", "g">>, <<"j", "p", "e", "g">>, <<"p", "n", "g">>,
      <<"g", "i", "f">>, <<"j", "f", "i", "f">> }

\* Whether s ends with suffix, character by character under the i flag.
EndsWithFolded(s, suffix) ==
    /\ Len(s) >= Len(suffix)
    /\ \A i \in 1..Len(suffix) :
          FoldCase(s[Len(s) - Len(suffix) + i]) = FoldCase(suffix[i])

\* The pattern without its $ anchor: the extension anywhere in the name.
MatchesImagePatternUnanchored(name) ==
    \E ext \in imageExtensions, n \in 1..Len(name) :
        EndsWithFolded(SubSeq(name, 1, n), <<".">> \o ext)

\* The pattern without its i flag.
MatchesImagePatternCaseSensitive(name) ==
    \E ext \in imageExtensions :
        /\ Len(name) >= Len(ext) + 1
        /\ SubSeq(name, Len(name) - Len(ext), Len(name)) = <<".">> \o ext

\* name.match(/\.(jpg|jpeg|png|gif|jfif)$/i) is not null: a dot, one of the
\* alternatives, and the end of the name ($ without the m flag).
MatchesImagePattern(name) ==
    \E ext \in imageExtensions : EndsWithFolded(name, <<".">> \o ext)

(***************************************************************************)
(* Bounds of the model.                                                    *)
(***************************************************************************)
\* Requests one client sends in one limiter window, in the specification Spec.
MaxHits == 2
\* Requests beyond the limit that the first client sends in one window, in
\* the specification SpecLimiter.
MaxOver == 2
\* Temporary files the uploads/ directory can hold.
MaxUploads == 2
\* Blobs in the container.
MaxBlobs == 2
\* Junk characters before the JSON text of a provider's response.
MaxJunk == 3

(***************************************************************************)
(* The program's constants.                                                *)
(***************************************************************************)
\* The list without its last entry.
requiredEnvVarsShort ==
    << "ANTHROPIC_API_KEY", "AZURE_STORAGE_ACCOUNT_NAME",
       "AZURE_STORAGE_ACCOUNT_KEY" >>

requiredEnvVars ==
    << "ANTHROPIC_API_KEY", "AZURE_STORAGE_ACCOUNT_NAME",
       "AZURE_STORAGE_ACCOUNT_KEY", "AZURE_CONTAINER_NAME" >>

\* rateLimit({ windowMs: 15 * 60 * 1000, max: 100 })
max == 100

\* expiresOn: now + 3600 * 1000 milliseconds.
sasExpiryMs == 3600 * 1000

(***************************************************************************)
(* The state.                                                              *)
(***************************************************************************)
VARIABLES
    processEnv,  \* process.env restricted to requiredEnvVars
    proc,        \* "starting", "exited" or "listening"
    envIndex,    \* the position of requiredEnvVars.forEach
    exitCode,    \* the code given to process.exit, once proc = "exited"
    hits,        \* the limiter's store: client -> requests counted this window
    passed,      \* client -> requests the limiter let through this window
    uploads,     \* the files in uploads/ (multer's destination)
    req,         \* the request being handled
    pc,          \* where its handling stands
    res,         \* the response sent for it
    calls,       \* the outbound calls made for it, per provider
    loc          \* the handler's local variables and the provider's reply

vars ==
    << processEnv, proc, envIndex, exitCode, hits, passed, uploads,
       req, pc, res, calls, loc >>

bootVars == << processEnv, proc, envIndex, exitCode >>

Clients == {"c1", "c2"}

\* A JSON response body that is an object: v is the record of its fields.
Json(fields) == [t |-> "json", v |-> fields]
HasField(body, f) == body.t = "json" /\ f \in DOMAIN body.v

NoBody == [t |-> "none", v |-> <<>>]
NoRes == [status |-> 0, body |-> NoBody]
Response(status, body) == [status |-> status, body |-> body]

NoMessage == [kind |-> "none", prefix |-> <<>>, value |-> Undefined, suffix |-> <<>>]
NoReq ==
    [ route |-> "none", client |-> "none", malformed |-> FALSE,
      prompt |-> Undefined, blobName |-> <<>>, file |-> FALSE ]
NoCalls == [chat |-> 0, storage |-> 0, ocr |-> 0, translate |-> 0]
NoChat == [ok |-> FALSE, content |-> Undefined, message |-> "", code |-> "", type |-> ""]
NoLoc ==
    [ chat |-> NoChat, imagePath |-> 0,
      listing |-> <<>>, storageOk |-> TRUE, blobCount |-> 0, imageUrls |-> <<>>,
      ocr |-> NoMessage, visionData |-> Undefined, extractedText |-> <<>>,
      tr |-> NoMessage, translatedText |-> Undefined ]

Request(route, prompt, blobName, file) ==
    [ route |-> route, client |-> "none", malformed |-> FALSE,
      prompt |-> prompt, blobName |-> blobName, file |-> file ]

(***************************************************************************)
(* Startup: lines 17-28 and 314-316.                                       *)
(***************************************************************************)
\* A variable of process.env is undefined, the empty string or a value.
EnvValues == {Undefined, Str(<<>>), Str(<<"v">>)}

\* The variables of the environment the program reads at startup.
EnvKeys ==
    { "ANTHROPIC_API_KEY", "AZURE_STORAGE_ACCOUNT_NAME",
      "AZURE_STORAGE_ACCOUNT_KEY", "AZURE_CONTAINER_NAME" }

\* !process.env[key]
MissingEnv(key) == ~Truthy(processEnv[key])

\* One turn of requiredEnvVars.forEach: process.exit(1) on a missing key.
CheckEnvVar ==
    /\ proc = "starting"
    /\ envIndex <= Len(requiredEnvVars)
    /\ IF MissingEnv(requiredEnvVars[envIndex])
       THEN /\ proc' = "exited"
            /\ exitCode' = 1
            /\ envIndex' = envIndex
       ELSE /\ envIndex' = envIndex + 1
            /\ UNCHANGED << proc, exitCode >>
    /\ UNCHANGED << processEnv, hits, passed, uploads, req, pc, res, calls, loc >>

\* The rest of the script runs to app.listen once the loop has ended.
Listen ==
    /\ proc = "starting"
    /\ envIndex > Len(requiredEnvVars)
    /\ proc' = "listening"
    /\ UNCHANGED << processEnv, envIndex, exitCode, hits, passed, uploads,
                    req, pc, res, calls, loc >>

(***************************************************************************)
(* The middleware chain every request enters: express.json (line 35), then *)
(* the limiter (lines 38-42), then the route.                              *)
(***************************************************************************)
\* The test off by one: the request after the last allowed one passes.
OverLimitOffByOne(totalHits) == totalHits > max + 1

\* The limiter's test on the count that includes this request.
OverLimit(totalHits) == totalHits > max

\* The final error handler, lines 309-312.
ErrorHandlerResponse == Response(500, Json([error |-> "Something went wrong!"]))

\* The limiter's rejection.
TooManyRequests == Response(429, NoBody)

FreshPath ==
    CHOOSE n \in 1..(Cardinality(uploads) + 1) :
        n \notin uploads /\ \A m \in 1..(n - 1) : m \in uploads

\* A request of client c arrives: a body express.json cannot parse goes to
\* the error handler; otherwise the limiter counts it and either rejects it
\* or passes it to its route.
Receive(W, c, r) ==
    /\ proc = "listening"
    /\ pc = "idle"
    /\ hits[c] < W.hitsCap[c]
    /\ r.file => Cardinality(uploads) < MaxUploads
    /\ req' = [r EXCEPT !.client = c]
    /\ calls' = NoCalls
    /\ loc' = NoLoc
    /\ IF r.malformed
       THEN /\ res' = ErrorHandlerResponse
            /\ pc' = "done"
            /\ UNCHANGED << hits, passed >>
       ELSE /\ hits' = [hits EXCEPT ![c] = @ + 1]
            /\ IF OverLimit(hits[c] + 1)
               THEN /\ res' = TooManyRequests
                    /\ pc' = "done"
                    /\ UNCHANGED passed
               ELSE /\ res' = NoRes
                    /\ pc' = "routed"
                    /\ passed' = [passed EXCEPT ![c] = @ + 1]
    /\ UNCHANGED << bootVars, uploads >>

\* The limiter's window of client c ends: its count starts again.
WindowReset(c) ==
    /\ proc = "listening"
    /\ hits[c] > 0
    /\ hits' = [hits EXCEPT ![c] = 0]
    /\ passed' = [passed EXCEPT ![c] = 0]
    /\ UNCHANGED << bootVars, uploads, req, pc, res, calls, loc >>

\* The response has gone out; the server takes the next request.
Finish ==
    /\ pc = "done"
    /\ pc' = "idle"
    /\ req' = NoReq
    /\ res' = NoRes
    /\ calls' = NoCalls
    /\ loc' = NoLoc
    /\ UNCHANGED << bootVars, hits, passed, uploads >>

(***************************************************************************)
(* /test-api and /ask: lines 76-135.                                       *)
(***************************************************************************)
\* The test without trim(): a blank prompt passes.
validateRequestNoTrim(prompt) == ~(~IsString(prompt) \/ Len(prompt.s) = 0)

\* validateRequest lets the request through.
validateRequest(prompt) == ~(~IsString(prompt) \/ Len(Trim(prompt.s)) = 0)

TestApi ==
    /\ pc = "routed"
    /\ req.route = "/test-api"
    /\ calls' = [calls EXCEPT !.chat = @ + 1]
    /\ pc' = "await_chat"
    /\ UNCHANGED << bootVars, hits, passed, uploads, req, res, loc >>

\* message.content.join(" ") throws when content is not an array.
TestApiReply(W) ==
    /\ pc = "await_chat"
    /\ req.route = "/test-api"
    /\ \E m \in W.chat :
          /\ loc' = [loc EXCEPT !.chat = m]
          /\ res' =
                 IF m.ok /\ IsArray(m.content)
                 THEN Response(200, Json([ status |-> "success",
                                           responseTime |-> "ms",
                                           content |-> Join([i \in 1..Len(m.content.v) |->
                                                               toString(m.content.v[i])], <<" ">>) ]))
                 ELSE Response(500, Json([ status |-> "error", error |-> m.message,
                                           code |-> m.code, type |-> m.type ]))
    /\ pc' = "done"
    /\ UNCHANGED << bootVars, hits, passed, uploads, req, calls >>

\* validateRequest, then the handler up to its await.
Ask ==
    /\ pc = "routed"
    /\ req.route = "/ask"
    /\ IF validateRequest(req.prompt)
       THEN /\ calls' = [calls EXCEPT !.chat = @ + 1]
            /\ pc' = "await_chat"
            /\ res' = res
       ELSE /\ res' = Response(400, Json([error |-> "Invalid prompt format"]))
            /\ pc' = "done"
            /\ calls' = calls
    /\ UNCHANGED << bootVars, hits, passed, uploads, req, loc >>

AskReply(W) ==
    /\ pc = "await_chat"
    /\ req.route = "/ask"
    /\ \E m \in W.chat :
          /\ loc' = [loc EXCEPT !.chat = m]
          /\ res' =
                 IF m.ok
                 THEN Response(200, Json([response |-> m.content]))
                 ELSE Response(500, Json([ error |-> "Failed to fetch response from Claude",
                                           details |-> m.message ]))
    /\ pc' = "done"
    /\ UNCHANGED << bootVars, hits, passed, uploads, req, calls >>

(***************************************************************************)
(* /generate-sas-url/:blobName, lines 137-153, and /get-images, lines      *)
(* 155-195.                                                                *)
(***************************************************************************)
\* What blobClient.generateSasUrl({permissions, expiresOn}) signs.
SasUrl(blobName, permissions) ==
    [blob |-> blobName, permissions |-> permissions, expiresIn |-> sasExpiryMs]

StorageError == Response(500, Json([error |-> "storage error message"]))

GenerateSasUrl ==
    /\ pc = "routed"
    /\ req.route = "/generate-sas-url"
    /\ calls' = [calls EXCEPT !.storage = @ + 1]
    /\ pc' = "await_sas"
    /\ UNCHANGED << bootVars, hits, passed, uploads, req, res, loc >>

GenerateSasUrlReply(W) ==
    /\ pc = "await_sas"
    /\ req.route = "/generate-sas-url"
    /\ \E ok \in W.sas :
          res' = IF ok
                 THEN Response(200, Json([sasUrl |-> SasUrl(req.blobName, "w")]))
                 ELSE StorageError
    /\ pc' = "done"
    /\ UNCHANGED << bootVars, hits, passed, uploads, req, calls, loc >>

\* The handler up to the first step of for await: imageUrls = [],
\* blobCount = 0, and the listing the container will yield.
GetImages(W) ==
    /\ pc = "routed"
    /\ req.route = "/get-images"
    /\ \E listing \in W.containers :
          loc' = [loc EXCEPT !.listing = listing, !.imageUrls = <<>>, !.blobCount = 0]
    /\ calls' = [calls EXCEPT !.storage = @ + 1]
    /\ pc' = "listing"
    /\ UNCHANGED << bootVars, hits, passed, uploads, req, res >>

\* The response after the loop: 404 for no URL, the URLs otherwise.
ImagesResponse(imageUrls) ==
    IF Len(imageUrls) = 0
    THEN Response(404, Json([error |-> "No images found"]))
    ELSE Response(200, Arr(imageUrls))

\* One step of for await (const blob of listBlobsFlat()): the listing fails,
\* ends, or yields a blob, for which a matching name awaits its signed URL.
GetImagesNext(W) ==
    /\ pc = "listing"
    /\ \E ok \in W.list :
          IF ~ok
          THEN /\ res' = StorageError
               /\ pc' = "done"
               /\ loc' = [loc EXCEPT !.storageOk = FALSE]
               /\ calls' = calls
          ELSE IF loc.blobCount = Len(loc.listing)
          THEN /\ res' = ImagesResponse(loc.imageUrls)
               /\ pc' = "done"
               /\ UNCHANGED << loc, calls >>
          ELSE /\ loc' = [loc EXCEPT !.blobCount = @ + 1]
               /\ res' = res
               /\ IF MatchesImagePattern(loc.listing[loc.blobCount + 1])
                  THEN /\ pc' = "await_read_sas"
                       /\ calls' = [calls EXCEPT !.storage = @ + 1]
                  ELSE /\ pc' = "listing"
                       /\ calls' = calls
    /\ UNCHANGED << bootVars, hits, passed, uploads, req >>

\* await blobClient.generateSasUrl({permissions: "r"}), then imageUrls.push.
GetImagesSasReply(W) ==
    /\ pc = "await_read_sas"
    /\ \E ok \in W.sas :
          IF ok
          THEN /\ loc' = [loc EXCEPT !.imageUrls =
                             Append(@, SasUrl(loc.listing[loc.blobCount], "r"))]
               /\ pc' = "listing"
               /\ res' = res
          ELSE /\ res' = StorageError
               /\ pc' = "done"
               /\ loc' = [loc EXCEPT !.storageOk = FALSE]
    /\ UNCHANGED << bootVars, hits, passed, uploads, req, calls >>

(***************************************************************************)
(* /extract-text: lines 197-307.                                           *)
(***************************************************************************)
regions == <<"r", "e", "g", "i", "o", "n", "s">>
lines == <<"l", "i", "n", "e", "s">>
words == <<"w", "o", "r", "d", "s">>
text == <<"t", "e", "x", "t">>
translations == <<"t", "r", "a", "n", "s", "l", "a", "t", "i", "o", "n", "s">>

\* A catch block that sends what the pipeline had extracted so far.
GenericErrorPartial ==
    Response(500, Json([ error |-> "An error occurred while processing the image.",
                         extractedText |-> loc.extractedText ]))

\* The catch block's response, lines 303-305.
GenericError ==
    Response(500, Json([error |-> "An error occurred while processing the image."]))

\* Lines 231-233.
InvalidVisionResponse ==
    Response(500, Json([error |-> "Invalid response from Vision API."]))

\* response.data as the HTTP client hands it over: the body's text, or the
\* value the client has already parsed from it.
Data(m) ==
    IF m.kind = "text" THEN Str(m.prefix \o Stringify(m.value) \o m.suffix)
    ELSE m.value

RECURSIVE Concat(_)
Concat(parts) == IF parts = <<>> THEN <<>> ELSE Head(parts) \o Concat(Tail(parts))

\* line.words.map((word) => word.text).join(" ") + " " does not throw.
LineOk(line) ==
    /\ ~Nullish(line)
    /\ IsArray(Get(line, words))
    /\ \A w \in 1..Len(Get(line, words).v) : ~Nullish(Get(line, words).v[w])

LineText(line) ==
    LET ws == Get(line, words).v
    IN Join([w \in 1..Len(ws) |->
                IF Nullish(Get(ws[w], text)) THEN <<>> ELSE toString(Get(ws[w], text))],
            <<" ">>) \o <<" ">>

\* region.lines.forEach(...) does not throw.
RegionOk(region) ==
    /\ ~Nullish(region)
    /\ IsArray(Get(region, lines))
    /\ \A l \in 1..Len(Get(region, lines).v) : LineOk(Get(region, lines).v[l])

RegionText(region) ==
    LET ls == Get(region, lines).v
    IN Concat([l \in 1..Len(ls) |-> LineText(ls[l])])

OcrResult(outcome, visionData, extractedText) ==
    [outcome |-> outcome, visionData |-> visionData, extractedText |-> extractedText]

\* The extraction without the test of line 246: empty text goes on.
ExtractedTextUnchecked(visionData) ==
    LET rs == Get(visionData, regions)
    IN IF \E r \in 1..Len(rs.v) : ~RegionOk(rs.v[r])
       THEN OcrResult("throw", visionData, <<>>)
       ELSE OcrResult("ok", visionData,
                      Trim(Concat([r \in 1..Len(rs.v) |-> RegionText(rs.v[r])])))

\* Lines 237-248: the text of the regions, trimmed; no text throws.
ExtractedText(visionData) ==
    LET rs == Get(visionData, regions)
    IN IF \E r \in 1..Len(rs.v) : ~RegionOk(rs.v[r])
       THEN OcrResult("throw", visionData, <<>>)
       ELSE Bind(Trim(Concat([r \in 1..Len(rs.v) |-> RegionText(rs.v[r])])),
                 LAMBDA extractedText :
                     IF extractedText = <<>>
                     THEN OcrResult("throw", visionData, <<>>)
                     ELSE OcrResult("ok", visionData, extractedText))

\* Lines 222-248 from the result of JSON.parse(jsonString).
VisionStage(parsed) ==
    LET visionData == parsed.val
    IN IF ~parsed.ok THEN OcrResult("throw", Undefined, <<>>)
       ELSE IF \/ ~Truthy(visionData)
               \/ ~Truthy(Get(visionData, regions))
               \/ ~IsArray(Get(visionData, regions))
            THEN OcrResult("invalid", visionData, <<>>)
       ELSE ExtractedText(visionData)

\* The stage without lines 220-221: JSON.parse on the whole body.
OcrStageWholeBody(data) ==
    IF Nullish(data) THEN OcrResult("throw", Undefined, <<>>)
    ELSE Bind(JSONParse(toString(data)), LAMBDA parsed : VisionStage(parsed))

\* Lines 218-248 on visionResponse.data: "throw" (to the catch block),
\* "invalid" (the regions check) or "ok" with visionData and extractedText.
OcrStage(data) ==
    LET rawResponse == toString(data)
        jsonStartIndex == IndexOf(rawResponse, "{")
        jsonString == SubstringFrom(rawResponse, jsonStartIndex)
    IN IF Nullish(data) THEN OcrResult("throw", Undefined, <<>>)
       ELSE Bind(JSONParse(jsonString), LAMBDA parsed : VisionStage(parsed))

\* x?.[0]
First(x) ==
    CASE x.t = "arr" -> IF Len(x.v) > 0 THEN x.v[1] ELSE Undefined
      [] x.t = "str" -> IF Len(x.s) > 0 THEN Str(<<x.s[1]>>) ELSE Undefined
      [] OTHER -> Undefined

TranslateResult(outcome, translatedText) ==
    [outcome |-> outcome, translatedText |-> translatedText]

\* Lines 276-292 from the result of JSON.parse(cleanJsonString).
TranslationStage(parsed) ==
    LET translateData == parsed.val
        elem == translateData.v[1]
        trs == IF Nullish(elem) THEN Undefined ELSE Get(elem, translations)
        firstTranslation == IF Nullish(trs) THEN Undefined ELSE First(trs)
    IN IF ~parsed.ok THEN TranslateResult("throw", Undefined)
       ELSE IF \/ ~Truthy(translateData)
               \/ ~IsArray(translateData)
               \/ Len(translateData.v) = 0
            THEN TranslateResult("throw", Undefined)
       ELSE IF ~Truthy(firstTranslation) \/ ~Truthy(Get(firstTranslation, text))
            THEN TranslateResult("throw", Undefined)
       ELSE TranslateResult("ok", Get(firstTranslation, text))

\* The stage without lines 272-273: JSON.parse up to the end of the body.
TranslateStageToEnd(data) ==
    LET rawResponseData == toString(data)
        jsonStart == IndexOf(rawResponseData, "[")
        jsonStringData == Trim(SliceFrom(rawResponseData, jsonStart))
    IN IF Nullish(data) \/ jsonStart = -1 THEN TranslateResult("throw", Undefined)
       ELSE Bind(JSONParse(jsonStringData), LAMBDA parsed : TranslationStage(parsed))

\* Lines 263-292 on translationResponse.data: "throw", or "ok" with
\* translatedText.
TranslateStage(data) ==
    LET rawResponseData == toString(data)
        jsonStart == IndexOf(rawResponseData, "[")
        jsonStringData == Trim(SliceFrom(rawResponseData, jsonStart))
        jsonEndIndex == LastIndexOf(jsonStringData, "]") + 1
        cleanJsonString == Substring(jsonStringData, 0, jsonEndIndex)
    IN IF Nullish(data) \/ jsonStart = -1 THEN TranslateResult("throw", Undefined)
       ELSE Bind(JSONParse(cleanJsonString), LAMBDA parsed : TranslationStage(parsed))

\* upload.single("image") stores the file, then the handler runs up to its
\* first await: 400 without a file, readFileSync, the OCR call.
ExtractText(W) ==
    /\ pc = "routed"
    /\ req.route = "/extract-text"
    /\ IF ~req.file
       THEN /\ res' = Response(400, Json([error |-> "No image file uploaded."]))
            /\ pc' = "done"
            /\ UNCHANGED << uploads, loc, calls >>
       ELSE /\ uploads' = uploads \cup {FreshPath}
            /\ loc' = [loc EXCEPT !.imagePath = FreshPath]
            /\ \E readOk \in W.read :
                  IF readOk
                  THEN /\ calls' = [calls EXCEPT !.ocr = @ + 1]
                       /\ pc' = "await_ocr"
                       /\ res' = res
                  ELSE /\ res' = GenericError
                       /\ pc' = "done"
                       /\ calls' = calls
    /\ UNCHANGED << bootVars, hits, passed, req >>

\* The OCR call settles: it rejects (to the catch block), or lines 218-261
\* run on its data up to the translation call.
OcrReply(W) ==
    /\ pc = "await_ocr"
    /\ \E m \in W.ocr :
          \E r \in {OcrStage(Data(m))} :
             /\ loc' = [loc EXCEPT !.ocr = m,
                                   !.visionData =
                                       IF m.kind = "error" THEN Undefined ELSE r.visionData,
                                   !.extractedText =
                                       IF m.kind = "error" THEN <<>> ELSE r.extractedText]
             /\ IF m.kind = "error" \/ r.outcome = "throw"
                THEN /\ res' = GenericError
                     /\ pc' = "done"
                     /\ calls' = calls
                ELSE IF r.outcome = "invalid"
                THEN /\ res' = InvalidVisionResponse
                     /\ pc' = "done"
                     /\ calls' = calls
                ELSE /\ res' = res
                     /\ pc' = "await_translate"
                     /\ calls' = [calls EXCEPT !.translate = @ + 1]
    /\ UNCHANGED << bootVars, hits, passed, uploads, req >>

\* The translation call settles: it rejects, or lines 263-297 run on its
\* data: parse, validate, fs.unlinkSync(imagePath), respond.
TranslateReply(W) ==
    /\ pc = "await_translate"
    /\ \E m \in W.tr :
          \E r \in {TranslateStage(Data(m))} :
             /\ IF m.kind = "error" \/ r.outcome = "throw"
                THEN /\ res' = GenericError
                     /\ uploads' = uploads
                     /\ loc' = [loc EXCEPT !.tr = m, !.ocr = NoMessage]
                ELSE /\ res' = Response(200, Json([ extractedText |-> loc.extractedText,
                                                    translatedText |-> r.translatedText ]))
                     /\ uploads' = uploads \ {loc.imagePath}
                     /\ loc' = [loc EXCEPT !.tr = m, !.ocr = NoMessage,
                                           !.translatedText = r.translatedText]
    /\ pc' = "done"
    /\ UNCHANGED << bootVars, hits, passed, req, calls >>

(***************************************************************************)
(* The environment: the requests clients send and what the providers       *)
(* answer.                                                                 *)
(***************************************************************************)
\* req.body.prompt: absent, not a string, empty, blank, or with text.
Prompts ==
    { Undefined, Null, Num(<<"4", "2">>), Arr(<<Str(<<"h", "i">>)>>),
      Str(<<>>), Str(<<" ">>), Str(<<" ", "\n", "\t">>),
      Str(<<"h", "i">>), Str(<<" ", "h", "i", " ">>) }

BlobNames ==
    { <<"a", ".", "J", "P", "G">>, <<"c", ".", "j", "p", "e", "g">>,
      <<"d", ".", "P", "n", "g">>, <<"e", ".", "g", "i", "f">>,
      <<"f", ".", "j", "f", "i", "f">>, <<"g", ".", "t", "x", "t">>,
      <<"j", "p", "g">>, <<"h", ".", "p", "n", "g", ".", "b", "a", "k">> }

Requests ==
    {Request("/test-api", Undefined, <<>>, FALSE)}
    \cup {Request("/ask", p, <<>>, FALSE) : p \in Prompts}
    \cup {[Request("/ask", Undefined, <<>>, FALSE) EXCEPT !.malformed = TRUE]}
    \cup {Request("/generate-sas-url", Undefined, n, FALSE) :
             n \in {<<"a", ".", "j", "p", "g">>, <<"g", ".", "t", "x", "t">>}}
    \cup {Request("/get-images", Undefined, <<>>, FALSE)}
    \cup {Request("/extract-text", Undefined, <<>>, f) : f \in BOOLEAN}

\* anthropic.messages.create resolves with a message or rejects with an error.
ChatMessage(content) ==
    [ok |-> TRUE, content |-> content, message |-> "", code |-> "", type |-> ""]
ChatError(message) ==
    [ok |-> FALSE, content |-> Undefined, message |-> message,
     code |-> "ETIMEDOUT", type |-> "error"]
ChatReplies ==
    { ChatMessage(Arr(<<Obj(<<Member(<<"t", "y", "p", "e">>, Str(text)),
                             Member(text, Str(<<"h", "i">>))>>)>>)),
      ChatMessage(Arr(<<>>)),
      ChatError("Connection error.") }

\* The listings of the container: its blobs, each name once, in the order
\* listBlobsFlat yields them.
Containers ==
    UNION { { s \in [1..n -> BlobNames] : \A i, j \in 1..n : s[i] = s[j] => i = j }
            : n \in 0..MaxBlobs }

Message(kind, prefix, value, suffix) ==
    [kind |-> kind, prefix |-> prefix, value |-> value, suffix |-> suffix]
ErrorMessage == Message("error", <<>>, Undefined, <<>>)

JunkRun(n) == [i \in 1..n |-> "x"]

Word(chars) == Obj(<<Member(text, Str(chars))>>)
Line(ws) == Obj(<<Member(words, Arr(ws))>>)
Region(ls) == Obj(<<Member(lines, Arr(ls))>>)
Vision(rs) == Obj(<<Member(<<"l", "a", "n", "g">>, Str(<<"e", "n">>)), Member(regions, rs)>>)

\* OCR results: with text, without, and malformed in each way the handler
\* tests or trips on.
VisionValues ==
    { Vision(Arr(<<Region(<<Line(<<Word(<<"a">>), Word(<<"b">>)>>),
                            Line(<<Word(<<"c">>)>>)>>)>>)),
      Vision(Arr(<<Region(<<Line(<<Word(<<"{">>)>>)>>),
                   Region(<<Line(<<Word(<<"d", "]">>)>>)>>)>>)),
      Vision(Arr(<<Region(<<Line(<<Word(<<" ">>)>>)>>)>>)),
      Vision(Arr(<<>>)),
      Vision(Arr(<<Region(<<>>)>>)),
      Vision(Arr(<<Obj(<<>>)>>)),
      Vision(Arr(<<Null>>)),
      Vision(Arr(<<Region(<<Obj(<<>>)>>)>>)),
      Vision(Str(<<"x">>)),
      Vision(Null),
      Obj(<<Member(<<"e", "r", "r", "o", "r">>, Str(<<"b", "a", "d">>))>>),
      Arr(<<>>),
      Null }

\* What may precede the JSON text: up to MaxJunk junk characters, a byte
\* order mark, or junk that itself holds a bracket.
VisionPrefixes ==
    {JunkRun(n) : n \in 0..MaxJunk}
    \cup {<<"BOM">>, <<"}", "[", ":">>, <<"x", "{", "y">>}
VisionSuffixes == {<<>>, <<"\n">>, <<"x">>}

VisionMessages ==
    {ErrorMessage}
    \cup {Message("text", p, v, s) :
             p \in VisionPrefixes, v \in VisionValues, s \in VisionSuffixes}
    \cup {Message("parsed", <<>>, v, <<>>) : v \in VisionValues}

Translation(chars) ==
    Obj(<<Member(text, Str(chars)), Member(<<"t", "o">>, Str(<<"e", "n">>))>>)
Translated(ts) == Obj(<<Member(translations, ts)>>)

TranslateValues ==
    { Arr(<<Translated(Arr(<<Translation(<<"h", "i">>)>>))>>),
      Arr(<<Translated(Arr(<<Translation(<<"a", "]", "b", "[">>),
                             Translation(<<"y", "o">>)>>)),
            Translated(Arr(<<Translation(<<"n", "o">>)>>))>>),
      Arr(<<Translated(Arr(<<Translation(<<>>)>>))>>),
      Arr(<<Translated(Arr(<<>>))>>),
      Arr(<<Translated(Str(<<"h", "i">>))>>),
      Arr(<<Obj(<<>>)>>),
      Arr(<<Null>>),
      Arr(<<>>),
      Obj(<<Member(<<"e", "r", "r", "o", "r">>, Str(<<"b", "a", "d">>))>>),
      Null }

TranslatePrefixes ==
    {JunkRun(n) : n \in 0..MaxJunk} \cup {<<"BOM">>, <<"x", "[", "y">>, <<"]", " ">>}
TranslateSuffixes ==
    {<<>>, <<"\n">>, <<" ", "e", "n", "d", "[">>, <<" ", "[", "x", "]">>, <<"]">>}

TranslateMessages ==
    {ErrorMessage}
    \cup {Message("text", p, v, s) :
             p \in TranslatePrefixes, v \in TranslateValues, s \in TranslateSuffixes}
    \cup {Message("parsed", <<>>, v, <<>>) : v \in TranslateValues}

\* Everything the environment can do, with one client held to MaxHits
\* requests in a window.
World ==
    [ clients |-> {"c1"},
      hitsCap |-> [c \in Clients |-> MaxHits],
      requests |-> Requests,
      chat |-> ChatReplies,
      sas |-> BOOLEAN,
      containers |-> Containers,
      list |-> BOOLEAN,
      read |-> BOOLEAN,
      ocr |-> VisionMessages,
      tr |-> TranslateMessages ]

\* A small environment in which the first client can exceed the limit.
LimiterWorld ==
    [ clients |-> Clients,
      hitsCap |-> [c \in Clients |-> IF c = "c1" THEN max + MaxOver ELSE MaxHits],
      requests |->
          { Request("/test-api", Undefined, <<>>, FALSE),
            Request("/ask", Str(<<"h", "i">>), <<>>, FALSE),
            Request("/ask", Str(<<" ">>), <<>>, FALSE),
            [Request("/ask", Undefined, <<>>, FALSE) EXCEPT !.malformed = TRUE],
            Request("/generate-sas-url", Undefined, <<"a", ".", "j", "p", "g">>, FALSE),
            Request("/get-images", Undefined, <<>>, FALSE),
            Request("/extract-text", Undefined, <<>>, TRUE) },
      chat |-> {ChatMessage(Arr(<<>>))},
      sas |-> {TRUE},
      containers |-> {<< <<"a", ".", "j", "p", "g">> >>},
      list |-> {TRUE},
      read |-> {TRUE},
      ocr |-> { ErrorMessage,
                Message("text", <<>>,
                        Vision(Arr(<<Region(<<Line(<<Word(<<"a">>)>>)>>)>>)), <<>>) },
      tr |-> { Message("text", <<>>,
                       Arr(<<Translated(Arr(<<Translation(<<"h", "i">>)>>))>>), <<>>) } ]

(***************************************************************************)
(* The specifications.                                                     *)
(***************************************************************************)
Idle ==
    /\ hits = [c \in Clients |-> 0]
    /\ passed = [c \in Clients |-> 0]
    /\ uploads = {}
    /\ req = NoReq
    /\ pc = "idle"
    /\ res = NoRes
    /\ calls = NoCalls
    /\ loc = NoLoc

\* The process starts, with any environment.
Init ==
    /\ processEnv \in [EnvKeys -> EnvValues]
    /\ proc = "starting"
    /\ envIndex = 1
    /\ exitCode = 0
    /\ Idle

\* The process has started and listens.
InitListening ==
    /\ processEnv = [k \in EnvKeys |-> Str(<<"v">>)]
    /\ proc = "listening"
    /\ envIndex = Len(requiredEnvVars) + 1
    /\ exitCode = 0
    /\ Idle

Boot == CheckEnvVar \/ Listen

Serve(W) ==
    \/ \E c \in W.clients, r \in W.requests : Receive(W, c, r)
    \/ \E c \in W.clients : WindowReset(c)
    \/ Finish
    \/ TestApi
    \/ TestApiReply(W)
    \/ Ask
    \/ AskReply(W)
    \/ GenerateSasUrl
    \/ GenerateSasUrlReply(W)
    \/ GetImages(W)
    \/ GetImagesNext(W)
    \/ GetImagesSasReply(W)
    \/ ExtractText(W)
    \/ OcrReply(W)
    \/ TranslateReply(W)

Next == Boot \/ Serve(World)

Spec == Init /\ [][Next]_vars

\* The startup script runs on to its end: nothing suspends it.
SpecStartup == Init /\ [][Next]_vars /\ WF_vars(Boot)

NextLimiter == Serve(LimiterWorld)

SpecLimiter == InitListening /\ [][NextLimiter]_vars

(***************************************************************************)
(* The properties.                                                         *)
(***************************************************************************)
\* The route's handler ran and its response has been sent.
Responded(route) ==
    /\ pc = "done"
    /\ req.route = route
    /\ ~req.malformed
    /\ res.status # 429

\* The prompts of the model that are strings with text left after trimming.
NonBlankPrompts == {Str(<<"h", "i">>), Str(<<" ", "h", "i", " ">>)}

\* C1, as stated: every POST /ask that reaches the handler is answered 200
\* with a response field when its prompt is a string that is non-empty after
\* trimming, and 400 with no chat-completion call otherwise.
AskAnswers200Or400 ==
    Responded("/ask") =>
        IF req.prompt \in NonBlankPrompts
        THEN res.status = 200 /\ HasField(res.body, "response")
        ELSE res.status = 400 /\ calls.chat = 0

\* C1, amended: a prompt that is a string non-empty after trimming leads to
\* exactly one chat-completion call, answered 200 with the upstream content in
\* the response field when the call succeeds and 500 with error and details
\* when it fails; any other prompt is answered 400 with no call.
AskAnswers ==
    Responded("/ask") =>
        IF req.prompt \in NonBlankPrompts
        THEN /\ calls.chat = 1
             /\ IF loc.chat.ok
                THEN /\ res.status = 200
                     /\ HasField(res.body, "response")
                     /\ res.body.v.response = loc.chat.content
                ELSE /\ res.status = 500
                     /\ HasField(res.body, "error")
                     /\ HasField(res.body, "details")
                     /\ ~HasField(res.body, "response")
        ELSE res.status = 400 /\ calls.chat = 0

\* A padded prompt was answered 200.
AskAnswersWitness ==
    /\ Responded("/ask")
    /\ req.prompt = Str(<<" ", "h", "i", " ">>)
    /\ res.status = 200
    /\ HasField(res.body, "response")

\* /extract-text stored an upload and has sent its response.
ExtractResponded ==
    /\ pc = "done"
    /\ req.route = "/extract-text"
    /\ loc.imagePath # 0

\* C2: whenever /extract-text has responded to a request with an uploaded
\* file, the temporary file is no longer on disk.
UploadDeletedAtResponse == ExtractResponded => loc.imagePath \notin uploads

\* Some step of the pipeline failed: the OCR or the translation call
\* rejected, or the response is not the success response.
PipelineCallFailed == loc.ocr.kind = "error" \/ loc.tr.kind = "error"

\* The parsed OCR payload lacks a regions sequence.
LacksRegions ==
    /\ loc.tr.kind = "none"
    /\ loc.ocr.kind \in {"text", "parsed"}
    /\ loc.visionData # Undefined
    /\ ~IsArray(Get(loc.visionData, regions))

\* C3, as stated: a failure of /extract-text is answered 500 with the one
\* generic message and without extractedText or translatedText; a 200
\* carries both.
ExtractFailsWithOneMessage ==
    ExtractResponded =>
        \/ /\ res.status = 200
           /\ HasField(res.body, "extractedText")
           /\ HasField(res.body, "translatedText")
           /\ ~PipelineCallFailed
        \/ /\ res.status = 500
           /\ DOMAIN res.body.v = {"error"}
           /\ res.body.v.error = "An error occurred while processing the image."

\* C3, amended: a failure is answered 500 with one of two fixed messages and
\* never with extractedText or translatedText: "Invalid response from Vision
\* API." when the parsed OCR payload lacks a regions sequence, the generic
\* message for every other failure; a 200 carries both fields.
ExtractFailsWithFixedMessages ==
    ExtractResponded =>
        \/ /\ res.status = 200
           /\ HasField(res.body, "extractedText")
           /\ HasField(res.body, "translatedText")
           /\ ~PipelineCallFailed
           /\ ~LacksRegions
        \/ /\ res.status = 500
           /\ DOMAIN res.body.v = {"error"}
           /\ res.body.v.error =
                 IF LacksRegions THEN "Invalid response from Vision API."
                 ELSE "An error occurred while processing the image."

\* A payload without regions was answered with the Vision message.
ExtractFailsWitness ==
    /\ ExtractResponded
    /\ LacksRegions
    /\ res.status = 500
    /\ res.body.v.error = "Invalid response from Vision API."

\* C4: in one window at most 100 requests of a client pass the limiter to a
\* route; a request counted beyond them is answered 429 at once, with no
\* handler step and no call to any provider.
RateLimited ==
    /\ \A c \in Clients : passed[c] <= 100
    /\ \A c \in Clients : passed[c] <= hits[c]
    /\ (pc # "idle" /\ ~req.malformed /\ hits[req.client] > 100) =>
          /\ pc = "done"
          /\ res.status = 429
    /\ res.status = 429 => pc = "done" /\ calls = NoCalls /\ loc = NoLoc

\* The first client was rejected after its 100 requests, while the second
\* client's requests pass.
RateLimitedWitness ==
    /\ pc = "done"
    /\ res.status = 429
    /\ req.client = "c1"
    /\ passed["c1"] = 100
    /\ hits["c1"] = 101
    /\ passed["c2"] > 0

\* The blob names of the model that end in .jpg, .jpeg, .png, .gif or .jfif,
\* whatever the case.
ImageNames ==
    { <<"a", ".", "J", "P", "G">>, <<"c", ".", "j", "p", "e", "g">>,
      <<"d", ".", "P", "n", "g">>, <<"e", ".", "g", "i", "f">>,
      <<"f", ".", "j", "f", "i", "f">> }

\* The positions of the listing that hold an image.
ImagesListed == {i \in 1..Len(loc.listing) : loc.listing[i] \in ImageNames}

\* C5, as stated: /get-images answers 404 whenever the container holds no
\* image, whatever else it holds, and never 200 with an empty array.
NoImagesIs404 ==
    Responded("/get-images") =>
        /\ ImagesListed = {} => res.status = 404
        /\ res.status = 200 => res.body.t = "arr" /\ Len(res.body.v) > 0

\* C5, amended: when the container holds no image, /get-images answers 404
\* if the listing completes and 500 if the listing fails; it never answers
\* 200 with an empty array.
NoImagesIs404Or500 ==
    Responded("/get-images") =>
        /\ ImagesListed = {} =>
              IF loc.storageOk THEN res.status = 404 ELSE res.status = 500
        /\ res.status = 200 => res.body.t = "arr" /\ Len(res.body.v) > 0

\* A container of objects that are no images was answered 404.
NoImagesWitness ==
    /\ Responded("/get-images")
    /\ Len(loc.listing) >= 2
    /\ ImagesListed = {}
    /\ res.status = 404

\* C6: a successful /get-images returns as many signed read URLs as the
\* container holds images: one for each image, none for anything else.
OneUrlPerImage ==
    (Responded("/get-images") /\ res.status = 200) =>
        /\ ImagesListed # {}
        /\ Len(res.body.v) = Cardinality(ImagesListed)
        /\ \A i \in ImagesListed :
              Cardinality({j \in 1..Len(res.body.v) :
                              res.body.v[j].blob = loc.listing[i]}) = 1
        /\ \A j \in 1..Len(res.body.v) :
              /\ res.body.v[j].blob \in ImageNames
              /\ res.body.v[j].permissions = "r"

\* A container with an image in capitals and another object gave one URL.
OneUrlPerImageWitness ==
    /\ Responded("/get-images")
    /\ res.status = 200
    /\ Len(res.body.v) = 1
    /\ Len(loc.listing) = 2
    /\ loc.listing[2] = <<"a", ".", "J", "P", "G">>

\* The OCR stage has run on a text body made of a prefix and a JSON object.
OcrParsedPrefixed ==
    /\ req.route = "/extract-text"
    /\ pc \in {"await_translate", "done"}
    /\ loc.ocr.kind = "text"
    /\ loc.ocr.value.t = "obj"
    /\ loc.ocr.suffix = <<>>

\* What the OCR stage recovers: the parsed payload and the text.
Recovered(r) == <<r.visionData, r.extractedText>>

\* The extraction recovered the object the provider wrote, as it does from
\* the object's text alone.
OcrRecoversObject ==
    /\ OcrStage(Str(Stringify(loc.ocr.value))).visionData = loc.ocr.value
    /\ <<loc.visionData, loc.extractedText>>
          = Recovered(OcrStage(Str(Stringify(loc.ocr.value))))

TranslationParsedWrapped ==
    /\ req.route = "/extract-text"
    /\ pc = "done"
    /\ loc.tr.kind = "text"
    /\ loc.tr.value.t = "arr"

\* The stage recovered the first translation text that it recovers from the
\* array's text alone, and answered 200 exactly when that text exists.
TranslationRecoversText ==
    /\ loc.translatedText
          = TranslateStage(Str(Stringify(loc.tr.value))).translatedText
    /\ res.status = 200
          <=> TranslateStage(Str(Stringify(loc.tr.value))).outcome = "ok"

Credentials ==
    { "ANTHROPIC_API_KEY", "AZURE_STORAGE_ACCOUNT_NAME",
      "AZURE_STORAGE_ACCOUNT_KEY", "AZURE_CONTAINER_NAME" }

\* What startup keeps true: the listener is bound only when all four
\* credentials are present, an exit has a non-zero code and a missing
\* credential behind it, and the check never goes past a missing one.
StartupGuard ==
    /\ proc = "listening" => \A k \in Credentials : processEnv[k] # Undefined
    /\ proc = "exited" =>
          /\ exitCode # 0
          /\ \E k \in Credentials : processEnv[k] \in {Undefined, Str(<<>>)}
    /\ \A k \in Credentials :
          processEnv[k] = Undefined =>
              /\ proc # "listening"
              /\ \E i \in 1..Len(requiredEnvVars) :
                    requiredEnvVars[i] = k /\ envIndex <= i

\* C9: with any of the four credentials missing the process never listens
\* and exits with a non-zero code; the listener is bound only when all four
\* are present.
StartupTerminates ==
    /\ []StartupGuard
    /\ (\E k \in Credentials : processEnv[k] = Undefined) ~> (proc = "exited")

\* Only the last credential is missing, and the process has exited with 1.
StartupGuardWitness ==
    /\ proc = "exited"
    /\ exitCode = 1
    /\ processEnv["AZURE_CONTAINER_NAME"] = Undefined
    /\ \A k \in Credentials \ {"AZURE_CONTAINER_NAME"} : processEnv[k] = Str(<<"v">>)

\* C10: in one /extract-text request each provider is called at most once;
\* the translation is called only after the OCR call has resolved, its
\* payload held a regions sequence and its text was non-empty after
\* trimming; after a failure before the translation, no translation call and
\* no success response follow.
PipelineInOrder ==
    req.route = "/extract-text" =>
        /\ calls.ocr <= 1
        /\ calls.translate <= 1
        /\ calls.translate = 1 =>
              /\ calls.ocr = 1
              /\ pc \in {"await_translate", "done"}
              /\ pc = "await_translate" => loc.ocr.kind \in {"text", "parsed"}
              /\ IsArray(Get(loc.visionData, regions))
              /\ loc.extractedText # <<>>
              /\ Head(loc.extractedText) \notin TrimSpace
              /\ loc.extractedText[Len(loc.extractedText)] \notin TrimSpace
        /\ (pc = "done" /\ loc.tr.kind = "none") =>
              calls.translate = 0 /\ res.status # 200
        /\ res.status = 200 =>
              /\ calls.ocr = 1
              /\ calls.translate = 1
              /\ loc.tr.kind \in {"text", "parsed"}

\* A request went through both calls, in order, to its 200.
PipelineInOrderWitness ==
    /\ ExtractResponded
    /\ res.status = 200
    /\ calls.ocr = 1
    /\ calls.translate = 1
    /\ loc.extractedText = <<"{", " ", "d", "]">>

=============================================================================
